---- MODULE Spec2Model ----
(***************************************************************************)
(* Pomodoro timer core (class TimerState, src/src/ui/PomodoroView.ts       *)
(* lines 1496-2079) together with the parts of the presentation adapter    *)
(* (class PomodoroView, same file, lines 13-204) that call into it.        *)
(*                                                                         *)
(* JavaScript runs every handler to its first await without interruption,  *)
(* so the synchronous prefix of a handler is one step of the model and     *)
(* each resumption after an await is another step.  The only awaits of     *)
(* the core are the seven globalState.update calls of saveState.           *)
(***************************************************************************)
EXTENDS Integers, Sequences, FiniteSets, TLC

VARIABLES
    config,          \* the "pomodoro-timer" settings as configured (raw values)
    currentHours,    \* TimerState.currentHours
    currentMinutes,  \* TimerState.currentMinutes
    currentSeconds,  \* TimerState.currentSeconds
    isPaused,        \* TimerState.isPaused
    phase,           \* TimerState.phase
    currentCycle,    \* TimerState.currentCycle
    timerInterval,   \* TimerState.timerInterval: 0 is undefined, else a handle
    dailyStats,      \* TimerState.dailyStats: the date and the three counters
    intervals,       \* handles of the setInterval timers still scheduled
    pending,         \* suspended async calls: each is inside a saveState
    globalState,     \* context.globalState: the key/value store
    prompts,         \* completion prompts shown and not yet answered
    emitted,         \* events fired by eventEmitter.fire during the last step
    lastOp,          \* the code the last step ran, with what it returned
    history,         \* in a recorded run: the program after each step so far
    today,           \* the calendar day new Date() gives, as a day number
    lastActivityTime,  \* TimerState.lastActivityTime, in minutes
    now              \* the clock Date.now() reads, in minutes

vars == <<config, currentHours, currentMinutes, currentSeconds, isPaused,
          phase, currentCycle, timerInterval, dailyStats, intervals, pending,
          globalState, prompts, emitted, lastOp, history, today,
          lastActivityTime, now>>

----------------------------------------------------------------------------
(* Bounds of the model *)

MaxPending == 2
MaxIntervals == 2
MaxCycle == 2
MaxPrompts == 2
MaxStatMinutes == 2
MaxSteps == 2
MaxDrawnHours == 1
MaxDrawnMinutes == 1
MaxDrawnCycle == 4
MaxDrawnCycles == 4

Max(a, b) == IF a >= b THEN a ELSE b

----------------------------------------------------------------------------
(* Types of the source *)

WORK == "work"
BREAK == "break"
LONG_BREAK == "long_break"
TimerPhase == {WORK, BREAK, LONG_BREAK}

TICK == "tick"
PHASE_COMPLETED == "phase_completed"
PHASE_CHANGED == "phase_changed"
STATE_CHANGED == "state_changed"

\* the keys saveState writes, in the order it writes them
SaveKeys == <<"currentHours", "currentMinutes", "currentSeconds", "isPaused",
              "phase", "currentCycle", "dailyStats">>

\* the last second of a minute and the last minute of an hour, as tick loads them
LastSecond == 59
LastMinute == 59

----------------------------------------------------------------------------
(* The TimerState object and what surrounds it, as one record *)

\* the fields of the running program that the operations read and write
World ==
    [currentHours |-> currentHours, currentMinutes |-> currentMinutes,
     currentSeconds |-> currentSeconds, isPaused |-> isPaused, phase |-> phase,
     currentCycle |-> currentCycle, timerInterval |-> timerInterval,
     dailyStats |-> dailyStats, intervals |-> intervals, pending |-> pending,
     globalState |-> globalState, prompts |-> prompts, emitted |-> emitted,
     lastActivityTime |-> lastActivityTime]

\* a getConfig that clamps the cycle setting only
getConfigDurationsAsSet ==
    [workTime |-> config.workTime,
     breakTime |-> config.breakTime,
     longBreakTime |-> config.longBreakTime,
     cyclesBeforeLongBreak |-> Max(1, config.cyclesBeforeLongBreak),
     showNotifications |-> config.showNotifications,
     autoStartNextPhase |-> config.autoStartNextPhase,
     pauseOnInactivity |-> config.pauseOnInactivity,
     inactivityThreshold |-> Max(1, config.inactivityThreshold)]

\* getConfig: every numeric setting is clamped to at least 1 when it is read
getConfig ==
    [workTime |-> Max(1, config.workTime),
     breakTime |-> Max(1, config.breakTime),
     longBreakTime |-> Max(1, config.longBreakTime),
     cyclesBeforeLongBreak |-> Max(1, config.cyclesBeforeLongBreak),
     showNotifications |-> config.showNotifications,
     autoStartNextPhase |-> config.autoStartNextPhase,
     pauseOnInactivity |-> config.pauseOnInactivity,
     inactivityThreshold |-> Max(1, config.inactivityThreshold)]

\* the minutes restart and switchPhase load for a phase (the switch statements)
PhaseMinutes(p) ==
    CASE p = WORK -> getConfig.workTime
      [] p = BREAK -> getConfig.breakTime
      [] p = LONG_BREAK -> getConfig.longBreakTime

\* getCurrentTime, without the padding to two digits
getCurrentTime(w) == <<w.currentHours, w.currentMinutes, w.currentSeconds>>

\* eventEmitter.fire: delivery is synchronous; the step records what was fired
emitEvent(w, type, data) ==
    [w EXCEPT !.emitted = Append(@, [type |-> type, data |-> data])]

\* Node's clearInterval: the timer with this handle is no longer scheduled
clearInterval(w, id) == [w EXCEPT !.intervals = @ \ {id}]

\* the handle Node's setInterval returns: one no scheduled timer has
NewHandle(S) ==
    CHOOSE i \in 1..(Cardinality(S) + 1) :
        i \notin S /\ \A j \in 1..(i - 1) : j \in S

\* this.timerInterval = setInterval(async () => {...}, 1000)
setInterval(w) ==
    LET id == NewHandle(w.intervals)
    IN  [w EXCEPT !.timerInterval = id, !.intervals = @ \cup {id}]

\* if (this.timerInterval) clearInterval(this.timerInterval), handle kept
clearTimer(w) ==
    IF w.timerInterval # 0 THEN clearInterval(w, w.timerInterval) ELSE w

\* the same, followed by this.timerInterval = undefined
cancelTimer(w) == [clearTimer(w) EXCEPT !.timerInterval = 0]

\* updateActivity()
updateActivity(w) == [w EXCEPT !.lastActivityTime = now]

\* globalState.update(key, this[key]): the value is read when the call is made
update(w, key) == [w EXCEPT !.globalState[key] = w[key]]

\* saveState up to its first await: the first key is written and the caller
\* is suspended; "then" is what the caller does once saveState has returned
saveState(w, then) ==
    [update(w, SaveKeys[1]) EXCEPT
        !.pending = Append(@, [then |-> then, written |-> 1])]

----------------------------------------------------------------------------
(* The operations of TimerState, each up to its first await *)

\* what the caller of saveState does when saveState returns
Return == "return"            \* nothing that changes the state
TickFalse == "tick:false"     \* tick emits TICK and returns false
TickTrue == "tick:true"       \* tick emits TICK and returns true
AutoStart == "autoStart"      \* switchPhase(true) goes on to start the timer
Stopped == "stopped"          \* pause and reset: nothing that changes the state

IsZero(w) ==
    w.currentHours = 0 /\ w.currentMinutes = 0 /\ w.currentSeconds = 0

\* a restart() that loads the work duration in every phase
restartWorkOnly(w) ==
    LET cleared == clearTimer(w)
        loaded == [cleared EXCEPT !.currentHours = 0,
                                  !.currentMinutes = getConfig.workTime,
                                  !.currentSeconds = 0,
                                  !.isPaused = FALSE]
    IN  saveState(setInterval(updateActivity(loaded)), Return)

\* restart(): load the configured duration of the current phase and run
restart(w) ==
    LET cleared == clearTimer(w)
        loaded == [cleared EXCEPT !.currentHours = 0,
                                  !.currentMinutes = PhaseMinutes(w.phase),
                                  !.currentSeconds = 0,
                                  !.isPaused = FALSE]
    IN  saveState(setInterval(updateActivity(loaded)), Return)

\* a start() that never reloads the duration
startWithoutReload(w) ==
    saveState(setInterval(updateActivity([clearTimer(w) EXCEPT
                                            !.isPaused = FALSE])), Return)

\* start(): restart() when the countdown is all-zero, else run from where it is
start(w) ==
    IF IsZero(w)
    THEN restart(w)
    ELSE saveState(setInterval(updateActivity([clearTimer(w) EXCEPT
                                            !.isPaused = FALSE])), Return)

\* a pause() that toggles the running flag
pauseToggling(w) ==
    saveState([cancelTimer(w) EXCEPT !.isPaused = ~w.isPaused], Stopped)

\* pause(reason?)
pause(w) == saveState([cancelTimer(w) EXCEPT !.isPaused = TRUE], Stopped)

\* a resume() that only sets the timer running
resumeWithoutReload(w) == startWithoutReload(w)

\* resume(): await this.start()
resume(w) == start(w)

\* reset()
reset(w) ==
    saveState([cancelTimer(w) EXCEPT !.currentHours = 0,
                                     !.currentMinutes = 0,
                                     !.currentSeconds = 0,
                                     !.isPaused = TRUE,
                                     !.phase = WORK,
                                     !.currentCycle = 0], Stopped)

\* a shouldTakeLongBreak() without the modulo
shouldTakeLongBreakEveryCycle(w) == w.currentCycle > 0

\* shouldTakeLongBreak()
shouldTakeLongBreak(w) ==
    w.currentCycle > 0 /\ w.currentCycle % getConfig.cyclesBeforeLongBreak = 0

\* a countdown that borrows a minute without loading its seconds
CountdownNoBorrow(w) ==
    IF w.currentSeconds > 0
    THEN [w EXCEPT !.currentSeconds = @ - 1]
    ELSE IF w.currentMinutes > 0
    THEN [w EXCEPT !.currentMinutes = @ - 1]
    ELSE IF w.currentHours > 0
    THEN [w EXCEPT !.currentHours = @ - 1]
    ELSE w

\* the countdown of tick(): one second less, borrowing from minutes and hours
Countdown(w) ==
    IF w.currentSeconds > 0
    THEN [w EXCEPT !.currentSeconds = @ - 1]
    ELSE IF w.currentMinutes > 0
    THEN [w EXCEPT !.currentMinutes = @ - 1, !.currentSeconds = LastSecond]
    ELSE IF w.currentHours > 0
    THEN [w EXCEPT !.currentHours = @ - 1, !.currentMinutes = LastMinute,
                   !.currentSeconds = LastSecond]
    ELSE w

\* a tick() that finishes on the tick that reaches zero
tickEager(w) ==
    IF w.isPaused
    THEN w
    ELSE IF IsZero(Countdown(w))
    THEN saveState([cancelTimer(Countdown(w)) EXCEPT !.isPaused = TRUE], TickTrue)
    ELSE saveState(Countdown(w), TickFalse)

\* a tick() without the isPaused check
tickWhilePaused(w) ==
    IF IsZero(w)
    THEN saveState([cancelTimer(w) EXCEPT !.isPaused = TRUE], TickTrue)
    ELSE saveState(Countdown(w), TickFalse)

\* a tick() that moves to the other kind of phase when it finishes
tickAdvancing(w) ==
    IF w.isPaused
    THEN w
    ELSE IF IsZero(w)
    THEN saveState([cancelTimer(w) EXCEPT
                       !.isPaused = TRUE,
                       !.phase = IF w.phase = WORK THEN BREAK ELSE WORK],
                   TickTrue)
    ELSE saveState(Countdown(w), TickFalse)

\* a tick() that finishes without pausing the timer
tickNotPausing(w) ==
    IF w.isPaused
    THEN w
    ELSE IF IsZero(w)
    THEN saveState(cancelTimer(w), TickTrue)
    ELSE saveState(Countdown(w), TickFalse)

\* tick() up to its await
tick(w) ==
    IF w.isPaused
    THEN w
    ELSE IF IsZero(w)
    THEN saveState([cancelTimer(w) EXCEPT !.isPaused = TRUE], TickTrue)
    ELSE saveState(Countdown(w), TickFalse)

\* the value tick() resolves to: false at once when paused, else what the
\* call it suspended will return
tickReturns(w) ==
    IF Len(tick(w).pending) = Len(w.pending)
    THEN TickFalse
    ELSE tick(w).pending[Len(tick(w).pending)].then

\* a next phase decided on the cycle count before it is incremented
NextPhasePreIncrement(w) ==
    IF w.phase = WORK
    THEN [w EXCEPT !.currentCycle = @ + 1,
                   !.phase = IF shouldTakeLongBreak(w)
                             THEN LONG_BREAK ELSE BREAK]
    ELSE [w EXCEPT !.phase = WORK]

\* a next phase that counts a cycle at the end of every phase
NextPhaseCounting(w) ==
    IF w.phase = WORK
    THEN LET counted == [w EXCEPT !.currentCycle = @ + 1]
         IN  [counted EXCEPT !.phase = IF shouldTakeLongBreak(counted)
                                       THEN LONG_BREAK ELSE BREAK]
    ELSE [w EXCEPT !.phase = WORK, !.currentCycle = @ + 1]

\* the phase switchPhase moves to, with the cycle counted when WORK ends
NextPhase(w) ==
    IF w.phase = WORK
    THEN LET counted == [w EXCEPT !.currentCycle = @ + 1]
         IN  [counted EXCEPT !.phase = IF shouldTakeLongBreak(counted)
                                       THEN LONG_BREAK ELSE BREAK]
    ELSE [w EXCEPT !.phase = WORK]

\* a switchPhase that loads the duration of the phase it leaves
switchPhaseLoadingOld(w, autoStart) ==
    LET stopped == [cancelTimer(w) EXCEPT !.isPaused = TRUE]
        next == NextPhase(stopped)
        loaded == [next EXCEPT !.currentHours = 0,
                               !.currentSeconds = 0,
                               !.currentMinutes = PhaseMinutes(w.phase)]
        told == emitEvent(loaded, PHASE_CHANGED,
                          [phase |-> loaded.phase, cycle |-> loaded.currentCycle])
    IN  saveState(told, IF autoStart THEN AutoStart ELSE Return)

\* switchPhase(autoStart) up to its await
switchPhase(w, autoStart) ==
    LET stopped == [cancelTimer(w) EXCEPT !.isPaused = TRUE]
        next == NextPhase(stopped)
        loaded == [next EXCEPT !.currentHours = 0,
                               !.currentSeconds = 0,
                               !.currentMinutes = PhaseMinutes(next.phase)]
        told == emitEvent(loaded, PHASE_CHANGED,
                          [phase |-> loaded.phase, cycle |-> loaded.currentCycle])
    IN  saveState(told, IF autoStart THEN AutoStart ELSE Return)

\* switchPhase(true) after its first saveState: run, with a new drive loop
switchPhaseAutoStart(w) ==
    saveState(setInterval([w EXCEPT !.isPaused = FALSE]), Return)

\* PomodoroView.handlePhaseCompletion, called when PHASE_COMPLETED is delivered:
\* it asks the user unless notifications are off or the next phase auto-starts
viewHandlePhaseCompletion(w) ==
    IF getConfig.showNotifications /\ ~getConfig.autoStartNextPhase
    THEN [w EXCEPT !.prompts = @ + 1]
    ELSE w

\* a statistics update that books every completed phase as work
countPhaseAsWork(w) ==
    [w EXCEPT !.dailyStats.completedWorkCycles = @ + 1,
              !.dailyStats.totalWorkTime = @ + PhaseMinutes(w.phase)]

\* the statistics update of handlePhaseCompletion
countPhase(w) ==
    IF w.phase = WORK
    THEN [w EXCEPT !.dailyStats.completedWorkCycles = @ + 1,
                   !.dailyStats.totalWorkTime = @ + getConfig.workTime]
    ELSE [w EXCEPT !.dailyStats.totalBreakTime =
                       @ + (IF w.phase = LONG_BREAK
                            THEN getConfig.longBreakTime
                            ELSE getConfig.breakTime)]

\* a handlePhaseCompletion() that switches phase whatever the settings
handlePhaseCompletionSwitching(w) ==
    LET counted == countPhase(w)
        asked == IF getConfig.showNotifications
                 THEN [counted EXCEPT !.prompts = @ + 1]
                 ELSE counted
        switched == switchPhase(asked, TRUE)
        told == emitEvent(switched, PHASE_COMPLETED,
                          [phase |-> switched.phase,
                           cycle |-> switched.currentCycle])
    IN  viewHandlePhaseCompletion(told)

\* TimerState.handlePhaseCompletion()
handlePhaseCompletion(w) ==
    LET counted == countPhase(w)
        asked == IF getConfig.showNotifications
                 THEN [counted EXCEPT !.prompts = @ + 1]
                 ELSE counted
        switched == IF getConfig.autoStartNextPhase
                    THEN switchPhase(asked, TRUE)
                    ELSE asked
        told == emitEvent(switched, PHASE_COMPLETED,
                          [phase |-> switched.phase,
                           cycle |-> switched.currentCycle])
    IN  viewHandlePhaseCompletion(told)

\* the body of saveState after its last await, and the caller's code after it
saveStateReturns(w, then) ==
    LET told == emitEvent(w, STATE_CHANGED,
                          [time |-> getCurrentTime(w), phase |-> w.phase,
                           isPaused |-> w.isPaused, cycle |-> w.currentCycle])
        ticked == emitEvent(told, TICK, getCurrentTime(told))
    IN  CASE then = Return -> told
          [] then = Stopped -> told
          [] then = TickFalse -> ticked
          [] then = TickTrue -> handlePhaseCompletion(ticked)
          [] then = AutoStart -> switchPhaseAutoStart(told)

\* a saveState whose failure reaches the caller: nothing runs after the await
saveStateThrows(w, then) == w

\* a write is rejected: the catch of saveState reports it, saveState returns
\* without STATE_CHANGED, and the caller's code after the await runs
saveStateCatches(w, then) ==
    LET ticked == emitEvent(w, TICK, getCurrentTime(w))
    IN  CASE then = Return -> w
          [] then = Stopped -> w
          [] then = TickFalse -> ticked
          [] then = TickTrue -> handlePhaseCompletion(ticked)
          [] then = AutoStart -> switchPhaseAutoStart(w)

\* pending without its i-th element
Drop(q, i) == SubSeq(q, 1, i - 1) \o SubSeq(q, i + 1, Len(q))

\* a resumption that counts the next key as written and leaves the store
resumeCallWithoutWrite(w, i) ==
    LET call == w.pending[i]
    IN  IF call.written < Len(SaveKeys)
        THEN [w EXCEPT !.pending[i].written = call.written + 1]
        ELSE saveStateReturns([w EXCEPT !.pending = Drop(@, i)], call.then)

\* the suspended call i is resumed: saveState writes its next key, or returns
resumeCall(w, i) ==
    LET call == w.pending[i]
    IN  IF call.written < Len(SaveKeys)
        THEN [update(w, SaveKeys[call.written + 1]) EXCEPT
                 !.pending[i].written = call.written + 1]
        ELSE saveStateReturns([w EXCEPT !.pending = Drop(@, i)], call.then)

\* the write the suspended call i waits for is rejected by the store
failCall(w, i) ==
    saveStateCatches([w EXCEPT !.pending = Drop(@, i)], w.pending[i].then)

----------------------------------------------------------------------------
(* Construction *)

\* the counters initDailyStats gives a day that has none stored
FreshStats(day) ==
    [date |-> day, completedWorkCycles |-> 0, totalWorkTime |-> 0,
     totalBreakTime |-> 0]

ZeroStats == FreshStats(0)

\* initDailyStats: the stored counters if they are of today, else fresh ones
initDailyStats(store) ==
    IF store.dailyStats.date # today THEN FreshStats(today) ELSE store.dailyStats

\* what globalState.get returns for each key of an empty store: the defaults
\* of loadState and the fresh counters of initDailyStats
DefaultStore ==
    [currentHours |-> 0, currentMinutes |-> 0, currentSeconds |-> 0,
     isPaused |-> TRUE, phase |-> WORK, currentCycle |-> 0,
     dailyStats |-> ZeroStats, weeklyStats |-> <<>>]

\* the object after the field initialisers, initDailyStats and the reads of loadState
loadState(store) ==
    [currentHours |-> store.currentHours,
     currentMinutes |-> store.currentMinutes,
     currentSeconds |-> store.currentSeconds,
     isPaused |-> store.isPaused, phase |-> store.phase,
     currentCycle |-> store.currentCycle, timerInterval |-> 0,
     dailyStats |-> initDailyStats(store), intervals |-> {}, pending |-> <<>>,
     globalState |-> store, prompts |-> 0, emitted |-> <<>>,
     lastActivityTime |-> now]

\* new TimerState(context): a session stored as running is started again
construct(store) ==
    LET loaded == loadState(store)
    IN  IF ~loaded.isPaused THEN start(loaded) ELSE loaded

----------------------------------------------------------------------------
(* Steps *)

\* the suspended call i runs on until it has returned: the store acknowledges
\* the remaining writes of its saveState with no other event in between
RECURSIVE returnCall(_, _)
returnCall(w, i) ==
    IF w.pending[i].written < Len(SaveKeys)
    THEN returnCall(resumeCall(w, i), i)
    ELSE resumeCall(w, i)

\* the number of suspended calls that will do "then"
Waiting(w, then) ==
    Cardinality({i \in 1..Len(w.pending) : w.pending[i].then = then})

\* completions whose handling is still to come
Completing(w) == Waiting(w, TickTrue)

\* the prompts one completion opens: one by TimerState, one by PomodoroView
PromptsPerCompletion ==
    (IF getConfig.showNotifications THEN 1 ELSE 0)
    + (IF getConfig.showNotifications /\ ~getConfig.autoStartNextPhase
       THEN 1 ELSE 0)

LongestPhase ==
    Max(getConfig.workTime, Max(getConfig.breakTime, getConfig.longBreakTime))

\* the bounds of a run, stated so that a step that resumes a suspended call is
\* never held back by them: what the call is still to add is counted already
Bounded(w) ==
    /\ Len(w.pending) <= MaxPending
    /\ Cardinality(w.intervals) + Waiting(w, AutoStart)
         + (IF getConfig.autoStartNextPhase THEN Completing(w) ELSE 0)
         <= MaxIntervals
    /\ w.currentCycle
         + (IF getConfig.autoStartNextPhase THEN Completing(w) ELSE 0)
         <= MaxCycle
    /\ w.prompts + PromptsPerCompletion * Completing(w) <= MaxPrompts
    /\ w.dailyStats.totalWorkTime + w.dailyStats.totalBreakTime
         + LongestPhase * Completing(w) <= MaxStatMinutes

\* the program at the start of a step: nothing fired yet
Now == [World EXCEPT !.emitted = <<>>]

\* the runs that apply operations to a drawn session are recorded: history
\* holds the program as drawn and after each step; in the other runs it is <<>>
Recorded == history # <<>>

\* the program before the last step of a recorded run
Was == history[Len(history) - 1]

\* the steps a recorded run has taken
Steps == Len(history) - 1

\* the state in which the program is w under settings c
Is(c, w, op, was) ==
    /\ config = c
    /\ today = 0
    /\ now = 0
    /\ currentHours = w.currentHours
    /\ currentMinutes = w.currentMinutes
    /\ currentSeconds = w.currentSeconds
    /\ isPaused = w.isPaused
    /\ phase = w.phase
    /\ currentCycle = w.currentCycle
    /\ timerInterval = w.timerInterval
    /\ dailyStats = w.dailyStats
    /\ intervals = w.intervals
    /\ pending = w.pending
    /\ globalState = w.globalState
    /\ prompts = w.prompts
    /\ emitted = w.emitted
    /\ lastActivityTime = w.lastActivityTime
    /\ lastOp = op
    /\ history = was

\* the step that runs code "op" and leaves the program as w
Becomes(w, op) ==
    /\ Recorded \/ Bounded(w)
    /\ currentHours' = w.currentHours
    /\ currentMinutes' = w.currentMinutes
    /\ currentSeconds' = w.currentSeconds
    /\ isPaused' = w.isPaused
    /\ phase' = w.phase
    /\ currentCycle' = w.currentCycle
    /\ timerInterval' = w.timerInterval
    /\ dailyStats' = w.dailyStats
    /\ intervals' = w.intervals
    /\ pending' = w.pending
    /\ globalState' = w.globalState
    /\ prompts' = w.prompts
    /\ emitted' = w.emitted
    /\ lastActivityTime' = w.lastActivityTime
    /\ lastOp' = op
    /\ history' = IF Recorded THEN Append(history, w) ELSE <<>>
    /\ UNCHANGED <<config, today, now>>

\* the seconds of the countdown at which the user is taken to act: on the
\* minute, one second before it and one second after it
ActSeconds == {0, 1, LastSecond}

UserActs == currentSeconds \in ActSeconds

\* webview message "startTimer"
StartTimer == UserActs /\ Becomes(start(Now), "start")

\* webview message "pauseTimer": pause when running, resume when not
PauseTimer ==
    /\ UserActs
    /\ IF ~isPaused
       THEN Becomes(pause(Now), "pause")
       ELSE Becomes(resume(Now), "resume")

\* webview message "restartTimer"
RestartTimer == UserActs /\ Becomes(restart(Now), "restart")

\* webview message "resetTimer"
ResetTimer == UserActs /\ Becomes(reset(Now), "reset")

\* webview message "toggleMode"
ToggleMode == UserActs /\ Becomes(switchPhase(Now, FALSE), "switchPhase")

\* a scheduled drive loop fires: its callback calls tick()
TimerFires ==
    /\ intervals # {}
    /\ Becomes(tick(Now), tickReturns(Now))

\* the store acknowledges one write of a suspended call
CallResumes == \E i \in 1..Len(pending) : Becomes(resumeCall(Now, i), "resumed")

\* the store acknowledges all the writes a suspended call still waits for
CallReturns == \E i \in 1..Len(pending) : Becomes(returnCall(Now, i), "returned")

\* the user presses the button of a completion prompt
PromptConfirmed ==
    /\ UserActs
    /\ prompts > 0
    /\ Becomes(switchPhase([Now EXCEPT !.prompts = @ - 1], TRUE), "switchPhase(true)")

\* the user dismisses a completion prompt
PromptDismissed ==
    /\ UserActs
    /\ prompts > 0
    /\ Becomes([Now EXCEPT !.prompts = @ - 1], "dismissed")

----------------------------------------------------------------------------
(* Spec: the runs of a session from its construction *)

Next ==
    \/ StartTimer
    \/ PauseTimer
    \/ RestartTimer
    \/ ResetTimer
    \/ ToggleMode
    \/ TimerFires
    \/ CallReturns
    \/ PromptConfirmed
    \/ PromptDismissed

\* the settings of the runs explored from construction
Configs ==
    [workTime : {1}, breakTime : {1}, longBreakTime : {1},
     cyclesBeforeLongBreak : {2},
     showNotifications : BOOLEAN, autoStartNextPhase : BOOLEAN,
     pauseOnInactivity : {FALSE}, inactivityThreshold : {5}]

\* the stores a session is constructed from
Stores == {DefaultStore}

Init ==
    \E c \in Configs, store \in Stores :
        /\ config = c
        /\ Is(c, construct(store), "constructor", <<>>)

Spec == Init /\ [][Next]_vars

----------------------------------------------------------------------------
(* SpecOps: the operations applied to drawn sessions *)

\* isPaused, timerInterval and the scheduled timers: paused with no drive
\* loop, paused beside a drive loop whose handle was overwritten
\* (switchPhase(true) resumed after a start), running with the session's drive
\* loop, and running with both
Sessions ==
    {<<TRUE, 0, {}>>, <<TRUE, 0, {1}>>, <<FALSE, 1, {1}>>, <<FALSE, 2, {1, 2}>>}

\* a session at rest: no call suspended, the store holding what was saved last
Drawn(h, m, sec, ph, cycle, s, open) ==
    [currentHours |-> h, currentMinutes |-> m, currentSeconds |-> sec,
     isPaused |-> s[1], phase |-> ph, currentCycle |-> cycle,
     timerInterval |-> s[2], dailyStats |-> ZeroStats, intervals |-> s[3],
     pending |-> <<>>,
     globalState |-> [currentHours |-> h, currentMinutes |-> m,
                      currentSeconds |-> sec, isPaused |-> s[1], phase |-> ph,
                      currentCycle |-> cycle, dailyStats |-> ZeroStats,
                      weeklyStats |-> <<>>],
     prompts |-> open, emitted |-> <<>>, lastActivityTime |-> 0]

\* sessions at every second of the countdown
CountdownInputs ==
    {Drawn(h, m, sec, ph, 1, s, 0) :
        h \in 0..MaxDrawnHours, m \in 0..MaxDrawnMinutes, sec \in 0..LastSecond,
        ph \in TimerPhase, s \in Sessions \ {<<TRUE, 0, {}>>}}

\* the default of the two flags, and auto-start without notifications
CountdownConfigs ==
    {[workTime |-> 3, breakTime |-> 1, longBreakTime |-> 2,
      cyclesBeforeLongBreak |-> 2,
      showNotifications |-> ~auto, autoStartNextPhase |-> auto,
      pauseOnInactivity |-> FALSE, inactivityThreshold |-> 5] :
        auto \in BOOLEAN}

\* sessions at every point of the cycle count, at the end of a phase and one
\* minute before it
CadenceInputs ==
    {Drawn(0, m, 0, ph, cycle, s, open) :
        m \in {0, 1}, ph \in TimerPhase, cycle \in 0..MaxDrawnCycle,
        s \in Sessions, open \in {0, 1}}

CadenceConfigs ==
    [workTime : {3}, breakTime : {1}, longBreakTime : {2},
     cyclesBeforeLongBreak : 0..MaxDrawnCycles,
     showNotifications : {TRUE}, autoStartNextPhase : {FALSE},
     pauseOnInactivity : {FALSE}, inactivityThreshold : {5}]

InitOps ==
    \/ \E c \in CountdownConfigs, w \in CountdownInputs :
           Is(c, w, "drawn", <<w>>)
    \/ \E c \in CadenceConfigs, w \in CadenceInputs :
           Is(c, w, "drawn", <<w>>)

\* a recorded run takes MaxSteps steps
MayStep == Steps < MaxSteps

NextOps ==
    \/ MayStep /\ StartTimer
    \/ MayStep /\ PauseTimer
    \/ MayStep /\ RestartTimer
    \/ MayStep /\ ResetTimer
    \/ MayStep /\ ToggleMode
    \/ MayStep /\ TimerFires
    \/ MayStep /\ CallReturns
    \/ MayStep /\ PromptConfirmed
    \/ MayStep /\ PromptDismissed

SpecOps == InitOps /\ [][NextOps]_vars

----------------------------------------------------------------------------
(* Successive phase switches from the start of a session: each switchPhase()
   is awaited before the next one is called *)

\* a session in WORK with no cycle counted, at the end of the phase or one
\* minute before it
CadenceStarts ==
    {Drawn(0, m, 0, WORK, 0, s, 0) : m \in {0, 1}, s \in Sessions}

InitCadence ==
    \E c \in CadenceConfigs, w \in CadenceStarts : Is(c, w, "drawn", <<w>>)

\* enough steps to go through one cycle of getConfig.cyclesBeforeLongBreak
\* work phases and into the next
MaySwitch == Steps < 4 * getConfig.cyclesBeforeLongBreak

NextCadence ==
    \/ MaySwitch /\ pending = <<>> /\ ToggleMode
    \/ MaySwitch /\ CallReturns

SpecCadence == InitCadence /\ [][NextCadence]_vars

----------------------------------------------------------------------------
(* Properties *)

\* the remaining time of w in seconds
Total(w) == (w.currentHours * 60 + w.currentMinutes) * 60 + w.currentSeconds

\* the minutes configured for phase p, at least 1
ConfiguredMinutes(p) ==
    Max(1, CASE p = WORK -> config.workTime
             [] p = BREAK -> config.breakTime
             [] p = LONG_BREAK -> config.longBreakTime)

\* the last step of a recorded run was a call of tick(), of switchPhase()
Ticked == Steps >= 1 /\ lastOp \in {"tick:true", "tick:false"}
Switched == Steps >= 1 /\ lastOp \in {"switchPhase", "switchPhase(true)"}

\* C1: switchPhase() called in WORK adds one to the cycle count and moves to
\* LONG_BREAK exactly when the new count is positive and a multiple of
\* cyclesBeforeLongBreak (>= 1), and to BREAK otherwise
C1_SwitchFromWork ==
    (Switched /\ Was.phase = WORK /\ config.cyclesBeforeLongBreak >= 1) =>
        /\ currentCycle = Was.currentCycle + 1
        /\ phase = IF currentCycle > 0
                      /\ currentCycle % config.cyclesBeforeLongBreak = 0
                   THEN LONG_BREAK ELSE BREAK

\* with 4 cycles before a long break, the switch from 3 counted cycles
C1_Witness ==
    /\ Switched /\ Was.phase = WORK /\ Was.currentCycle = 3
    /\ config.cyclesBeforeLongBreak = 4
    /\ currentCycle = 4 /\ phase = LONG_BREAK

\* the steps of the run so far that left WORK, among its first i
ExitsFromWork(i) ==
    {j \in 1..i : history[j].phase = WORK /\ history[j + 1].phase # WORK}

\* C2: from WORK with no cycle counted, under successive switchPhase() calls
\* the k-th transition out of WORK enters BREAK for k < cyclesBeforeLongBreak
\* and LONG_BREAK for k = cyclesBeforeLongBreak (>= 1)
C2_Cadence ==
    (Recorded /\ config.cyclesBeforeLongBreak >= 1) =>
        \A i \in 1..Steps :
            i \in ExitsFromWork(i) =>
                LET k == Cardinality(ExitsFromWork(i))
                IN  /\ k < config.cyclesBeforeLongBreak
                           => history[i + 1].phase = BREAK
                    /\ k = config.cyclesBeforeLongBreak
                           => history[i + 1].phase = LONG_BREAK

\* the third transition out of WORK with 3 cycles before a long break, after
\* two that entered BREAK
C2_Witness ==
    /\ Switched /\ Was.phase = WORK /\ phase = LONG_BREAK
    /\ config.cyclesBeforeLongBreak = 3
    /\ Cardinality(ExitsFromWork(Steps)) = 3
    /\ \E i \in 1..Steps : history[i].phase = BREAK

\* C3: reset() leaves the remaining time zero, phase WORK, the timer paused,
\* no cycle counted and no drive loop installed
C3_ResetYields ==
    lastOp = "reset" =>
        /\ IsZero(World) /\ phase = WORK /\ isPaused /\ currentCycle = 0
        /\ timerInterval = 0 /\ intervals = {}

\* C4: a running timer at 00:00:01 ticks to 00:00:00 without finishing and
\* stays running; a running timer at 00:00:00 finishes on its tick, is paused
\* and stays at 00:00:00
C4_TickBoundary ==
    (Ticked /\ ~Was.isPaused) =>
        /\ getCurrentTime(Was) = <<0, 0, 1>> =>
               /\ getCurrentTime(World) = <<0, 0, 0>>
               /\ lastOp = "tick:false" /\ ~isPaused
        /\ IsZero(Was) =>
               /\ lastOp = "tick:true" /\ isPaused /\ IsZero(World)

\* two ticks from a running 00:00:01
C4_Witness ==
    /\ Steps = 2 /\ lastOp = "tick:true"
    /\ getCurrentTime(history[1]) = <<0, 0, 1>> /\ ~history[1].isPaused
    /\ IsZero(Was) /\ ~Was.isPaused
    /\ IsZero(World) /\ isPaused

\* C5: a tick of a running timer with time remaining takes exactly one second
\* off the total, borrowing from minutes and hours, does not finish, and
\* leaves the seconds within 0..59
C5_TickCountsDown ==
    (Ticked /\ ~Was.isPaused /\ Total(Was) > 0) =>
        /\ Total(World) = Total(Was) - 1
        /\ lastOp = "tick:false"
        /\ currentSeconds \in 0..59 /\ currentMinutes >= 0 /\ currentHours >= 0

\* the tick from 01:00:00 to 00:59:59
C5_Witness ==
    /\ Ticked /\ ~Was.isPaused
    /\ getCurrentTime(Was) = <<1, 0, 0>>
    /\ getCurrentTime(World) = <<0, 59, 59>>

\* C6: a tick of a paused timer changes nothing (time, phase, cycle count,
\* running flag, statistics, stored state), fires no event and returns false
C6_TickWhilePaused ==
    (Ticked /\ Was.isPaused) =>
        /\ Now = [Was EXCEPT !.emitted = <<>>]
        /\ emitted = <<>>
        /\ lastOp = "tick:false"

\* a tick of a paused timer with time remaining
C6_Witness ==
    /\ Ticked /\ Was.isPaused /\ Total(Was) > 0
    /\ intervals # {} /\ lastOp = "tick:false"

\* C7: tick() never changes the phase or the cycle count
C7_TickKeepsPhase ==
    Ticked => phase = Was.phase /\ currentCycle = Was.currentCycle

\* the tick that finishes a work phase
C7_Witness ==
    /\ Ticked /\ lastOp = "tick:true" /\ IsZero(Was)
    /\ Was.phase = WORK /\ phase = WORK /\ currentCycle = Was.currentCycle

\* C8: the tick of a running timer at zero cancels the drive loop, pauses the
\* timer and returns true
C8_TickAtZero ==
    lastOp = "tick:true" =>
        /\ isPaused /\ IsZero(World)
        /\ timerInterval = 0 /\ intervals = {}

\* C9: start() sets the timer running; from 00:00:00 it does what restart()
\* does, loading the configured duration of the current phase; otherwise the
\* remaining time is kept; phase and cycle count are kept in both cases
C9_Start ==
    (Steps >= 1 /\ lastOp = "start") =>
        /\ ~isPaused
        /\ phase = Was.phase /\ currentCycle = Was.currentCycle
        /\ IF IsZero(Was)
           THEN /\ getCurrentTime(World)
                       = <<0, ConfiguredMinutes(Was.phase), 0>>
                /\ World = restart([Was EXCEPT !.emitted = <<>>])
           ELSE getCurrentTime(World) = getCurrentTime(Was)

\* start() on a break at 00:00:00 with a break of one minute configured
C9_Witness ==
    /\ Steps >= 1 /\ lastOp = "start"
    /\ IsZero(Was) /\ Was.phase = BREAK /\ config.breakTime = 1
    /\ getCurrentTime(World) = <<0, 1, 0>> /\ ~isPaused /\ phase = BREAK

\* C10 as stated: resume() sets the timer running and in every state, 00:00:00
\* included, keeps the remaining time, the phase and the cycle count
C10_ResumeKeepsTime ==
    (Steps >= 1 /\ lastOp = "resume") =>
        /\ ~isPaused
        /\ getCurrentTime(World) = getCurrentTime(Was)
        /\ phase = Was.phase /\ currentCycle = Was.currentCycle

\* C10: resume() sets the timer running and keeps the phase and the cycle
\* count; it keeps the remaining time when that is not 00:00:00, and from
\* 00:00:00 it loads the configured duration of the current phase
C10_Resume ==
    (Steps >= 1 /\ lastOp = "resume") =>
        /\ ~isPaused
        /\ phase = Was.phase /\ currentCycle = Was.currentCycle
        /\ getCurrentTime(World) =
               IF IsZero(Was)
               THEN <<0, ConfiguredMinutes(Was.phase), 0>>
               ELSE getCurrentTime(Was)

\* resume() on a paused work phase at 00:00:00 with three minutes configured
C10_Witness ==
    /\ Steps >= 1 /\ lastOp = "resume"
    /\ IsZero(Was) /\ Was.isPaused /\ Was.phase = WORK /\ config.workTime = 3
    /\ getCurrentTime(World) = <<0, 3, 0>> /\ ~isPaused

----------------------------------------------------------------------------
(* pause() called on a drawn session, whether it is running or not *)

PauseCalled == Becomes(pause(Now), "pause")

NextPause ==
    \/ MayStep /\ PauseCalled
    \/ MayStep /\ CallReturns

SpecPause == InitOps /\ [][NextPause]_vars

----------------------------------------------------------------------------
(* A session near the end of a phase that is stopped once, by pause() or by
   reset(), while its drive loop ticks and its saves return; nothing is
   started again *)

\* sessions at the end of a phase, one second and one minute before it
StaleInputs ==
    {Drawn(0, t[1], t[2], ph, 1, s, 0) :
        t \in {<<0, 0>>, <<0, 1>>, <<1, 0>>}, ph \in TimerPhase,
        s \in Sessions}

InitStale ==
    \E c \in CountdownConfigs, w \in StaleInputs : Is(c, w, "drawn", <<w>>)

\* a call of pause() or reset() is suspended in w
Stopping(w) == \E i \in 1..Len(w.pending) : w.pending[i].then = Stopped

\* pause() or reset() has been called in this run
StopCalled == \E i \in 1..Len(history) : Stopping(history[i])

\* enough steps for a tick and a stop to be suspended and to return
MayStale == Steps < MaxSteps + 2

NextStale ==
    \/ MayStale /\ TimerFires
    \/ MayStale /\ CallReturns
    \/ MayStale /\ ~StopCalled /\ ~isPaused /\ PauseTimer
    \/ MayStale /\ ~StopCalled /\ ResetTimer

SpecStale == InitStale /\ [][NextStale]_vars

\* C11: restart() sets the remaining time to the configured duration of the
\* current phase with zero seconds, sets the timer running, and keeps the
\* phase and the cycle count
C11_Restart ==
    (Steps >= 1 /\ lastOp = "restart") =>
        /\ getCurrentTime(World) = <<0, ConfiguredMinutes(Was.phase), 0>>
        /\ ~isPaused
        /\ phase = Was.phase /\ currentCycle = Was.currentCycle

\* restart() of a paused long break with time remaining
C11_Witness ==
    /\ Steps >= 1 /\ lastOp = "restart"
    /\ Was.phase = LONG_BREAK /\ Was.isPaused /\ Total(Was) > 0
    /\ config.longBreakTime = 2
    /\ getCurrentTime(World) = <<0, 2, 0>> /\ ~isPaused /\ phase = LONG_BREAK

\* C12: after switchPhase() the remaining time is the configured duration of
\* the phase entered, with zero seconds, whatever it was before
C12_SwitchLoads ==
    Switched => getCurrentTime(World) = <<0, ConfiguredMinutes(phase), 0>>

\* the switch from a work phase with a minute left into a long break of two
C12_Witness ==
    /\ Switched /\ Was.phase = WORK /\ getCurrentTime(Was) = <<0, 1, 0>>
    /\ phase = LONG_BREAK /\ config.longBreakTime = 2
    /\ getCurrentTime(World) = <<0, 2, 0>>

\* C13: switchPhase(autoStart) first cancels any active drive loop: when it
\* reaches its save the timer is paused and no drive loop is installed (it is
\* then left so without autoStart, and set running with a drive loop with it)
C13_SwitchCancels ==
    lastOp \in {"switchPhase", "switchPhase(true)"} =>
        isPaused /\ timerInterval = 0 /\ intervals = {}

\* C14: switchPhase() called in BREAK or LONG_BREAK moves to WORK and keeps
\* the cycle count
C14_SwitchFromBreak ==
    (Switched /\ Was.phase \in {BREAK, LONG_BREAK}) =>
        phase = WORK /\ currentCycle = Was.currentCycle

\* the switch out of a long break with four cycles counted
C14_Witness ==
    /\ Switched /\ Was.phase = LONG_BREAK /\ Was.currentCycle = 4
    /\ phase = WORK /\ currentCycle = 4

\* C16: at most one drive loop is scheduled in every reachable state
C16_OneDriveLoop == Cardinality(intervals) <= 1

\* C15: pause() on a session that is already paused keeps the remaining time,
\* the phase, the cycle count, the running flag and the daily statistics
C15_PauseIdempotent ==
    (Steps >= 1 /\ lastOp = "pause" /\ Was.isPaused) =>
        /\ getCurrentTime(World) = getCurrentTime(Was)
        /\ phase = Was.phase /\ currentCycle = Was.currentCycle
        /\ isPaused
        /\ dailyStats = Was.dailyStats

\* pause() twice on a running session with time remaining
C15_Witness ==
    /\ Steps = 2 /\ lastOp = "pause"
    /\ ~history[1].isPaused /\ Total(history[1]) > 0
    /\ Was.isPaused /\ isPaused
    /\ getCurrentTime(World) = getCurrentTime(history[1])

\* the state j of the run is the one in which the stopping call returned
StopReturned(j) ==
    j >= 2 /\ Stopping(history[j - 1]) /\ ~Stopping(history[j])

\* C17: once pause() or reset() has returned, and while nothing is started
\* again, no tick changes the countdown and no phase completion takes effect
\* (statistics, prompts, phase, cycle count, running flag), also when a tick
\* was suspended in its save when the timer was stopped
C17_NoStaleEffects ==
    Recorded =>
        \A j \in 1..Len(history) : \A k \in j..Len(history) :
            StopReturned(j) =>
                /\ getCurrentTime(history[k]) = getCurrentTime(history[j])
                /\ history[k].phase = history[j].phase
                /\ history[k].currentCycle = history[j].currentCycle
                /\ history[k].isPaused = history[j].isPaused
                /\ history[k].dailyStats = history[j].dailyStats
                /\ history[k].prompts = history[j].prompts

\* a call of switchPhase(true) is suspended in w before it starts the timer
Starting(w) == \E i \in 1..Len(w.pending) : w.pending[i].then = AutoStart

\* events of this type were fired in the last step
Fired(type) == \E i \in 1..Len(emitted) : emitted[i].type = type

\* the last step of a recorded run handled the completion of a phase
Completed == Steps >= 1 /\ lastOp = "returned" /\ Fired(PHASE_COMPLETED)

\* C18 as stated: when the remaining time reaches zero the timer is not
\* running, and from zero it stays so in every step but a phase switch
C18_NotRunningAtZero ==
    /\ (Ticked /\ IsZero(World)) => isPaused
    /\ (Steps >= 1 /\ IsZero(Was)
            /\ lastOp \notin {"switchPhase", "switchPhase(true)"}) => isPaused

\* C18: the tick that finds a running timer at zero pauses it, and a paused
\* timer is set running only by start(), resume() or restart(), or by a
\* switchPhase(true) that resumes after its save
C18_RunsOnlyWhenStarted ==
    /\ (Ticked /\ ~Was.isPaused /\ IsZero(Was)) => isPaused
    /\ (Steps >= 1 /\ Was.isPaused /\ ~isPaused) =>
           \/ lastOp \in {"start", "resume", "restart"}
           \/ lastOp = "returned" /\ Starting(Was)

\* a phase runs to its end, is finished by the next tick and is started again
\* without a phase switch
C18_Witness ==
    /\ Steps = 2 /\ lastOp \in {"start", "resume"}
    /\ IsZero(history[1]) /\ ~history[1].isPaused
    /\ IsZero(Was) /\ Was.isPaused
    /\ ~isPaused /\ phase = history[1].phase /\ Total(World) > 0

\* C19: without autoStartNextPhase the handling of a completion keeps the
\* phase and the cycle count and leaves the timer paused at zero, and so does
\* every later step that is not the user's (ticks, returning saves, prompts
\* dismissed)
C19_CompletionWaits ==
    (Steps >= 1 /\ ~config.autoStartNextPhase
        /\ lastOp \in {"tick:true", "tick:false", "returned", "dismissed"}) =>
        /\ phase = Was.phase /\ currentCycle = Was.currentCycle
        /\ Completed =>
               /\ isPaused = Was.isPaused
               /\ getCurrentTime(World) = getCurrentTime(Was)
        /\ (Was.isPaused /\ IsZero(Was) /\ ~Starting(Was)) =>
               isPaused /\ IsZero(World)

\* the completion of a work phase handled without autoStartNextPhase
C19_Witness ==
    /\ Completed /\ ~config.autoStartNextPhase
    /\ Was.phase = WORK /\ phase = WORK /\ currentCycle = Was.currentCycle
    /\ isPaused /\ IsZero(World)
    /\ dailyStats.completedWorkCycles = 1 /\ prompts > 0

\* C20: with autoStartNextPhase the handling of a completion switches to the
\* next phase, to be set running, and opens no confirmation prompt
C20_AutoSwitchNoPrompt ==
    (lastOp = "returned" /\ Fired(PHASE_COMPLETED)
        /\ config.autoStartNextPhase) =>
        /\ Fired(PHASE_CHANGED) /\ Starting(World)
        /\ prompts = 0

\* C21: handling the completion of a phase changes the daily statistics in
\* exactly one way, chosen by the phase the session is in: WORK adds one to
\* completedWorkCycles and workTime minutes to totalWorkTime and leaves
\* totalBreakTime; BREAK adds breakTime and LONG_BREAK adds longBreakTime
\* minutes to totalBreakTime and leaves the two work counters
C21_StatsPerCompletion ==
    Completed =>
        LET old == Was.dailyStats
        IN  IF Was.phase = WORK
            THEN /\ dailyStats.completedWorkCycles = old.completedWorkCycles + 1
                 /\ dailyStats.totalWorkTime =
                        old.totalWorkTime + ConfiguredMinutes(WORK)
                 /\ dailyStats.totalBreakTime = old.totalBreakTime
            ELSE /\ dailyStats.completedWorkCycles = old.completedWorkCycles
                 /\ dailyStats.totalWorkTime = old.totalWorkTime
                 /\ dailyStats.totalBreakTime =
                        old.totalBreakTime + ConfiguredMinutes(Was.phase)

\* the completion of a LONG_BREAK was handled, under settings that give the
\* two kinds of break different lengths
C21_Witness ==
    /\ Completed
    /\ Was.phase = LONG_BREAK
    /\ dailyStats.totalBreakTime = Was.dailyStats.totalBreakTime + 2
    /\ ConfiguredMinutes(BREAK) # ConfiguredMinutes(LONG_BREAK)

\* C22: currentCycle counts the WORK phases whose countdown ran to its end:
\* a switch out of a WORK phase that still has time on its countdown leaves
\* currentCycle as it was
C22_CycleCountsCompletedWork ==
    (Switched /\ Was.phase = WORK /\ ~IsZero(Was)) =>
        currentCycle = Was.currentCycle

\* the PHASE_COMPLETED events the last step emitted
CompletedEvents ==
    {i \in 1..Len(emitted) : emitted[i].type = PHASE_COMPLETED}

\* C23: every PHASE_COMPLETED event carries the phase that just ended, the
\* phase the session was in when the completion was handled, under every
\* setting of autoStartNextPhase
C23_CompletedCarriesEndedPhase ==
    Completed =>
        \A i \in CompletedEvents : emitted[i].data.phase = Was.phase

\* the stored session holds what the event e describes
Persisted(e) ==
    CASE e.type = TICK ->
             <<globalState.currentHours, globalState.currentMinutes,
               globalState.currentSeconds>> = e.data
      [] e.type \in {PHASE_CHANGED, PHASE_COMPLETED} ->
             /\ globalState.phase = e.data.phase
             /\ globalState.currentCycle = e.data.cycle
      [] e.type = STATE_CHANGED ->
             /\ <<globalState.currentHours, globalState.currentMinutes,
                  globalState.currentSeconds>> = e.data.time
             /\ globalState.phase = e.data.phase
             /\ globalState.isPaused = e.data.isPaused
             /\ globalState.currentCycle = e.data.cycle

\* C24: an operation writes the new state to the store before it signals
\* any observer: the state an emitted event describes is in the store
C24_PersistedBeforeSignalled ==
    \A i \in 1..Len(emitted) : Persisted(emitted[i])

----------------------------------------------------------------------------
(* The writes of saveState one at a time: the store acknowledges each write
   of a suspended call separately, and the drive loop may fire in between. *)

\* enough steps for a tick and the writes that follow it in saveState
MaySave == Steps < MaxSteps + 2

NextSave ==
    \/ MaySave /\ TimerFires
    \/ MaySave /\ ToggleMode
    \/ MaySave /\ CallResumes

SpecSave == InitStale /\ [][NextSave]_vars

\* the six session values of a session or of a store
Snapshot(w) ==
    <<w.currentHours, w.currentMinutes, w.currentSeconds, w.isPaused, w.phase,
      w.currentCycle>>

\* C25: whenever the host stops, also between two writes of one save, the
\* six stored session values jointly equal one snapshot that the session in
\* memory held
C25_StoredIsSnapshot ==
    Recorded =>
        \E i \in 1..Len(history) : Snapshot(globalState) = Snapshot(history[i])

----------------------------------------------------------------------------
(* The host stops and starts again: a new TimerState is constructed from the
   store as the old session left it; the old object, its drive loops and its
   suspended calls are gone. *)

\* new TimerState(context) in a restarted host
HostStarts == Becomes(construct(globalState), "constructor")

NextLoad ==
    \/ MayStale /\ TimerFires
    \/ MayStale /\ CallReturns
    \/ MayStale /\ HostStarts

SpecLoad == InitStale /\ [][NextLoad]_vars

\* C26: a session constructed from the store has the remaining time, the
\* phase, the running flag and the cycle count that the store held
C26_RoundTrip ==
    (Steps >= 1 /\ lastOp = "constructor") =>
        Snapshot(World) = Snapshot(Was.globalState)

----------------------------------------------------------------------------
(* The weekly history: the days pass, updateWeeklyStats() and dispose() are
   called on the session, and the host restarts. Dates are day numbers: the
   ISO date strings the code compares are ordered as the days are. *)

\* the length of the window of getWeeklyStats, in days
WeekDays == 7

\* the days that pass in a run, the days before it on which the history
\* was written, and the entries a run adds to the stored history
MaxDays == 2
MaxPastDays == 6
MaxWeekly == 2

\* getWeeklyStats(): the stored history and the counters of the session, less
\* the entries dated before the day seven days ago
getWeeklyStats(w) ==
    SelectSeq(Append(w.globalState.weeklyStats, w.dailyStats),
              LAMBDA stat : stat.date >= today - WeekDays)

\* Array.prototype.findIndex for the date of this.dailyStats: 0 for -1
findIndex(stats, date) ==
    LET found == {i \in 1..Len(stats) : stats[i].date = date}
    IN  IF found = {} THEN 0
        ELSE CHOOSE i \in found : \A j \in found : i <= j

\* updateWeeklyStats(): the await of getWeeklyStats() resumes before any
\* timer or message is served, and the list is written when update is called
updateWeeklyStats(w) ==
    LET weeklyStats == getWeeklyStats(w)
        todayIndex == findIndex(weeklyStats, w.dailyStats.date)
    IN  [w EXCEPT !.globalState.weeklyStats =
            IF todayIndex > 0
            THEN [weeklyStats EXCEPT ![todayIndex] = w.dailyStats]
            ELSE Append(weeklyStats, w.dailyStats)]

\* dispose(): the drive loop is cleared and the day is folded into the week
dispose(w) == updateWeeklyStats(clearTimer(w))

\* the calendar day changes
DayPasses ==
    /\ today < MaxDays
    /\ today' = today + 1
    /\ lastOp' = "midnight"
    /\ emitted' = <<>>
    /\ UNCHANGED <<config, currentHours, currentMinutes, currentSeconds,
                   isPaused, phase, currentCycle, timerInterval, dailyStats,
                   intervals, pending, globalState, prompts, history,
                   lastActivityTime, now>>

\* the entries of a list of daily statistics that are dated in the run
Added(stats) == {i \in 1..Len(stats) : stats[i].date >= 0}

\* the run may add one more entry to the stored history
MayFold == Cardinality(Added(globalState.weeklyStats)) < MaxWeekly

\* a call of updateWeeklyStats()
UpdatesWeekly == MayFold /\ Becomes(updateWeeklyStats(Now), "updateWeeklyStats")

\* a call of dispose()
Disposes == MayFold /\ Becomes(dispose(Now), "dispose")

\* sessions in the last second of a phase and at its end
StatsInputs ==
    {Drawn(0, 0, sec, ph, 1, s, 0) :
        sec \in {0, 1}, ph \in {WORK, BREAK},
        s \in {<<TRUE, 0, {}>>, <<FALSE, 1, {1}>>}}

\* the settings under which a completed phase waits for the user
StatsConfigs == {c \in Configs : ~c.autoStartNextPhase /\ ~c.showNotifications}

\* the history a session leaves that was disposed of once on each of the k
\* days before the run, having completed no phase
Past(k) == [i \in 1..k |-> FreshStats(i - k - 1)]

InitStats ==
    \E c \in StatsConfigs, w \in StatsInputs, k \in 0..MaxPastDays :
        Is(c, [w EXCEPT !.globalState.weeklyStats = Past(k)], "drawn", <<>>)

NextStats ==
    \/ TimerFires
    \/ CallReturns
    \/ UserActs /\ DayPasses
    \/ UserActs /\ UpdatesWeekly
    \/ UserActs /\ Disposes
    \/ UserActs /\ HostStarts

SpecStats == InitStats /\ [][NextStats]_vars

\* the dates of the entries of a list of daily statistics
Dates(stats) == {stats[i].date : i \in 1..Len(stats)}

\* C27: the stored weekly history holds at most one entry per date, and once
\* updateWeeklyStats() or dispose() has run, the entry of the session's day
\* holds the session's counters
C27_OneEntryPerDate ==
    LET stored == globalState.weeklyStats
    IN  /\ Cardinality(Dates(stored)) = Len(stored)
        /\ lastOp \in {"updateWeeklyStats", "dispose"} =>
               \E i \in 1..Len(stored) : stored[i] = dailyStats

\* C28: the weekly history is bounded to seven days: neither the stored
\* history nor the list getWeeklyStats() returns holds entries of more than
\* seven dates (with one entry per date, more than seven entries)
C28_AtMostSevenDays ==
    /\ Cardinality(Dates(globalState.weeklyStats)) <= WeekDays
    /\ Cardinality(Dates(getWeeklyStats(World))) <= WeekDays

\* the counters of a day are not all zero
Counted(stats) ==
    stats.completedWorkCycles + stats.totalWorkTime + stats.totalBreakTime > 0

\* C29: when the calendar day has changed, the counters of the day before
\* are in the weekly history and what is counted next is counted for the
\* new day: a session constructed from counters stored on an earlier day
\* finds them in the stored history, and the counters a completion has just
\* been added to are dated today
C29_DayRollsOver ==
    /\ (lastOp = "constructor" /\ globalState.dailyStats.date # today
            /\ Counted(globalState.dailyStats)) =>
           \E i \in 1..Len(globalState.weeklyStats) :
               globalState.weeklyStats[i] = globalState.dailyStats
    /\ (lastOp = "returned" /\ Fired(PHASE_COMPLETED)) =>
           dailyStats.date = today

\* C30: once the completion of a phase has been handled and no save is in
\* flight, the stored daily statistics equal those in memory
C30_StatsPersisted ==
    (lastOp = "returned" /\ Fired(PHASE_COMPLETED) /\ pending = <<>>) =>
        globalState.dailyStats = dailyStats

----------------------------------------------------------------------------
(* Inactivity detection: the clock advances, the editor reports activity and
   the check installed by setupInactivityDetection fires. *)

\* the minutes a run lasts
MaxIdleMinutes == 2

\* the settings with and without the pause on inactivity
InactivityConfigs ==
    {[c EXCEPT !.pauseOnInactivity = on, !.inactivityThreshold = minutes] :
        c \in CountdownConfigs, on \in BOOLEAN, minutes \in 1..MaxIdleMinutes}

InitIdle ==
    \E c \in InactivityConfigs, w \in StaleInputs : Is(c, w, "drawn", <<w>>)

\* the callback of inactivityCheckInterval
inactivityCheck(w) ==
    IF ~w.isPaused /\ now - w.lastActivityTime >= getConfig.inactivityThreshold
    THEN pause(w)
    ELSE w

\* the check fires: setupInactivityDetection installs it only when
\* pauseOnInactivity is set
InactivityCheck ==
    /\ getConfig.pauseOnInactivity
    /\ Becomes(inactivityCheck(Now), "inactivityCheck")

\* the editor reports a change of selection, editor or document
UserActive == Becomes(updateActivity(Now), "updateActivity")

\* a minute passes on the clock
MinutePasses ==
    /\ now < MaxIdleMinutes
    /\ now' = now + 1
    /\ lastOp' = "minute"
    /\ emitted' = <<>>
    /\ UNCHANGED <<config, currentHours, currentMinutes, currentSeconds,
                   isPaused, phase, currentCycle, timerInterval, dailyStats,
                   intervals, pending, globalState, prompts, history, today,
                   lastActivityTime>>

NextIdle ==
    \/ MinutePasses
    \/ MayStep /\ InactivityCheck
    \/ MayStep /\ UserActive
    \/ MayStep /\ StartTimer
    \/ MayStep /\ TimerFires
    \/ MayStep /\ CallReturns

SpecIdle == InitIdle /\ [][NextIdle]_vars

\* the last step of a recorded run was an inactivity check
Checked == Steps >= 1 /\ lastOp = "inactivityCheck"

\* the time since the last recorded activity of w has reached the threshold
Inactive(w) == now - w.lastActivityTime >= Max(1, config.inactivityThreshold)

\* C31: an inactivity check runs only when pauseOnInactivity is set; on a
\* running session whose inactivity has reached the threshold it pauses the
\* session, cancels the drive loop and keeps time, phase and cycle; on any
\* other session it changes nothing
C31_InactivityPauses ==
    Checked =>
        /\ config.pauseOnInactivity
        /\ IF ~Was.isPaused /\ Inactive(Was)
           THEN /\ isPaused
                /\ timerInterval = 0 /\ intervals = {}
                /\ getCurrentTime(World) = getCurrentTime(Was)
                /\ phase = Was.phase /\ currentCycle = Was.currentCycle
           ELSE Now = [Was EXCEPT !.emitted = <<>>]

----------------------------------------------------------------------------
(* Settings of any sign: the four numeric settings are drawn from negative,
   zero and positive values, and the session is at the end of a phase. *)

\* a negative, a zero and a positive value for each numeric setting
ClampConfigs ==
    [workTime : {-1, 0, 2}, breakTime : {-1, 0, 2}, longBreakTime : {-1, 0, 2},
     cyclesBeforeLongBreak : {-1, 0, 2},
     showNotifications : {TRUE}, autoStartNextPhase : {FALSE},
     pauseOnInactivity : {FALSE}, inactivityThreshold : {5}]

\* sessions at the end of each phase, on and off a multiple of the cycles,
\* with and without a completion prompt open
ClampInputs ==
    {Drawn(0, 0, 0, ph, cycle, s, open) :
        ph \in TimerPhase, cycle \in 1..2,
        s \in {<<TRUE, 0, {}>>, <<FALSE, 1, {1}>>}, open \in 0..1}

InitClamp ==
    \E c \in ClampConfigs, w \in ClampInputs : Is(c, w, "drawn", <<w>>)

SpecClamp == InitClamp /\ [][NextOps]_vars

\* the value the settings read gives for the configured value n
Clamped(n) == IF n >= 1 THEN n ELSE 1

\* the last step of a recorded run loaded the duration of a phase
Loaded ==
    /\ Steps >= 1
    /\ \/ lastOp \in {"restart", "switchPhase", "switchPhase(true)"}
       \/ lastOp \in {"start", "resume"} /\ IsZero(Was)

\* C32: for every configured integer the settings read gives
\* cyclesBeforeLongBreak and the three durations as max(1, configured), and
\* every phase is loaded with a duration of at least one minute
C32_ConfigClamped ==
    /\ getConfig.cyclesBeforeLongBreak = Clamped(config.cyclesBeforeLongBreak)
    /\ getConfig.workTime = Clamped(config.workTime)
    /\ getConfig.breakTime = Clamped(config.breakTime)
    /\ getConfig.longBreakTime = Clamped(config.longBreakTime)
    /\ Loaded =>
           /\ currentMinutes >= 1
           /\ currentMinutes =
                  Clamped(CASE phase = WORK -> config.workTime
                            [] phase = BREAK -> config.breakTime
                            [] phase = LONG_BREAK -> config.longBreakTime)

\* a long break was loaded under settings that set its length and the
\* number of cycles to zero or less
C32_Witness ==
    /\ Loaded
    /\ lastOp = "switchPhase"
    /\ phase = LONG_BREAK
    /\ config.longBreakTime <= 0
    /\ config.cyclesBeforeLongBreak <= 0
    /\ currentMinutes = 1

----------------------------------------------------------------------------
(* Write failures: the store rejects the write a suspended call waits for. *)

\* the store rejects a write of a suspended call
CallFails == \E i \in 1..Len(pending) : Becomes(failCall(Now, i), "failed")

\* enough steps for a completion to start the next phase and its save to fail
MayFail == Steps < MaxSteps + 1

NextFail ==
    \/ MayFail /\ StartTimer
    \/ MayFail /\ PauseTimer
    \/ MayFail /\ RestartTimer
    \/ MayFail /\ ResetTimer
    \/ MayFail /\ ToggleMode
    \/ MayFail /\ TimerFires
    \/ MayFail /\ CallReturns
    \/ MayFail /\ CallFails

SpecFail == InitStale /\ [][NextFail]_vars

\* what of a session a failed write must leave as a successful one does
Memory(w) ==
    <<getCurrentTime(w), w.phase, w.isPaused, w.currentCycle, w.timerInterval,
      w.intervals, w.dailyStats, Len(w.pending)>>

\* C33: an operation whose write fails ends with the remaining time, phase,
\* running flag, cycle count and drive loops it ends with when the write
\* succeeds
C33_FailedWriteSameOutcome ==
    (Steps >= 1 /\ lastOp = "failed") =>
        \E i \in 1..Len(Was.pending) :
            /\ World = failCall([Was EXCEPT !.emitted = <<>>], i)
            /\ Memory(World) = Memory(returnCall(Was, i))

\* the save of a phase switch that continues the countdown has failed, and
\* the next phase runs
C33_Witness ==
    /\ Steps >= 1 /\ lastOp = "failed"
    /\ \E i \in 1..Len(Was.pending) : Was.pending[i].then = AutoStart
    /\ Was.isPaused /\ ~isPaused
    /\ intervals # {}

----------------------------------------------------------------------------
(* Read failures: globalState.get throws while loadState reads the store. *)

\* the place of a key in the order loadState reads and saveState writes
KeyIndex(key) == CHOOSE i \in 1..Len(SaveKeys) : SaveKeys[i] = key

\* what loadState has in the field of a key when the read of its k-th key
\* throws: the stored value if it was read before, else the field initialiser
ReadBefore(store, key, k) ==
    IF KeyIndex(key) < k THEN store[key] ELSE DefaultStore[key]

\* new TimerState(context) when the read of the k-th key throws: the catch
\* of loadState reports it and the constructor goes on
loadStateCatches(store, k) ==
    [loadState(store) EXCEPT
        !.currentHours = ReadBefore(store, "currentHours", k),
        !.currentMinutes = ReadBefore(store, "currentMinutes", k),
        !.currentSeconds = ReadBefore(store, "currentSeconds", k),
        !.isPaused = ReadBefore(store, "isPaused", k),
        !.phase = ReadBefore(store, "phase", k),
        !.currentCycle = ReadBefore(store, "currentCycle", k)]

\* the host starts and one of the six reads of loadState throws
HostStartsUnread ==
    \E k \in 1..(Len(SaveKeys) - 1) :
        Becomes(loadStateCatches(globalState, k), "constructor:catch")

NextRead ==
    \/ MayStale /\ TimerFires
    \/ MayStale /\ CallReturns
    \/ MayStale /\ ToggleMode
    \/ MayStale /\ HostStartsUnread

SpecRead == InitStale /\ [][NextRead]_vars

\* C34: a session constructed while a read of the store fails has the
\* defaults in every field: 00:00:00, paused, WORK, cycle 0
C34_ReadFailureDefaults ==
    (Steps >= 1 /\ lastOp = "constructor:catch") =>
        Snapshot(World) = Snapshot(DefaultStore)

----------------------------------------------------------------------------
(* Completion prompts: a phase ends and the user answers the prompts it
   opens; no other command is given. *)

\* the settings of CountdownConfigs under each combination of the two flags
PromptConfigs ==
    {[c EXCEPT !.showNotifications = show, !.autoStartNextPhase = auto] :
        c \in CountdownConfigs, show \in BOOLEAN, auto \in BOOLEAN}

InitPrompt ==
    \E c \in PromptConfigs, w \in StaleInputs : Is(c, w, "drawn", <<w>>)

NextPrompt ==
    \/ MayStale /\ TimerFires
    \/ MayStale /\ CallReturns
    \/ MayStale /\ PromptConfirmed
    \/ MayStale /\ PromptDismissed

SpecPrompt == InitPrompt /\ [][NextPrompt]_vars

\* the steps of the recorded run that changed the phase, and those that
\* handled the completion of a phase
PhaseSwitches ==
    {j \in 2..Len(history) : history[j].phase # history[j - 1].phase}

Completions ==
    {j \in 2..Len(history) :
        \E i \in 1..Len(history[j].emitted) :
            history[j].emitted[i].type = PHASE_COMPLETED}

\* C35: whatever the two flags are and whichever prompts the user confirms,
\* the phase advances at most once and the cycle count grows by at most one
\* for each completed phase
C35_OneSwitchPerCompletion ==
    Recorded =>
        /\ Cardinality(PhaseSwitches) <= Cardinality(Completions)
        /\ currentCycle - history[1].currentCycle <= Cardinality(Completions)

\* C36: whenever no call is suspended, a drive loop is scheduled if and only
\* if the session is running
C36_LoopIffRunning ==
    pending = <<>> => (intervals # {} <=> ~isPaused)

----------------------------------------------------------------------------
(* The cycle count from the default state, under every number of cycles
   before a long break: each command is given, and each tick of the drive
   loop is served, when the calls before it have returned. *)

\* one-minute phases, with the cycle setting from zero up
CycleConfigs ==
    [workTime : {1}, breakTime : {1}, longBreakTime : {1},
     cyclesBeforeLongBreak : 0..MaxCycle,
     showNotifications : BOOLEAN, autoStartNextPhase : BOOLEAN,
     pauseOnInactivity : {FALSE}, inactivityThreshold : {5}]

InitCycle ==
    \E c \in CycleConfigs :
        /\ config = c
        /\ Is(c, construct(DefaultStore), "constructor", <<>>)

\* no call is suspended
Awaited == pending = <<>>

NextCycle ==
    \/ Awaited /\ StartTimer
    \/ Awaited /\ PauseTimer
    \/ Awaited /\ RestartTimer
    \/ Awaited /\ ResetTimer
    \/ Awaited /\ ToggleMode
    \/ Awaited /\ PromptConfirmed
    \/ Awaited /\ PromptDismissed
    \/ Awaited /\ TimerFires
    \/ CallReturns

SpecCycle == InitCycle /\ [][NextCycle]_vars

\* C37: from the default state a session in LONG_BREAK has a positive cycle
\* count that is a multiple of cyclesBeforeLongBreak, a session in a break of
\* either kind has a cycle count of at least one, and the cycle count
\* decreases in no step but a reset()
C37_CycleInvariant ==
    /\ [](/\ phase = LONG_BREAK =>
                /\ currentCycle > 0
                /\ currentCycle % Max(1, config.cyclesBeforeLongBreak) = 0
          /\ phase \in {BREAK, LONG_BREAK} => currentCycle >= 1)
    /\ [][currentCycle' >= currentCycle \/ lastOp' = "reset"]_vars

\* a long break is reached with two cycles counted
C37_Witness == phase = LONG_BREAK /\ currentCycle = 2

----------------------------------------------------------------------------
(* Interleaved saves: commands and ticks start saves while others are
   suspended, and the store acknowledges their writes one at a time in any
   order, until every save has returned. A command or a tick is served while
   at most one save is suspended, and the run follows the countdown at the
   seconds around the minute, where the user is taken to act. *)

\* sessions in WORK and in BREAK at the end of the phase and a second
\* before it, paused and running
WritesInputs ==
    {Drawn(0, 0, sec, ph, 1, s, 0) :
        sec \in {0, 1}, ph \in {WORK, BREAK},
        s \in {<<TRUE, 0, {}>>, <<FALSE, 1, {1}>>}}

\* the settings without prompts, with and without auto-start
WritesConfigs == {c \in Configs : ~c.showNotifications}

InitWrites ==
    \E c \in WritesConfigs, w \in WritesInputs : Is(c, w, "drawn", <<>>)

\* at most one save is suspended
OneSave == Len(pending) <= 1

NextWrites ==
    \/ OneSave /\ StartTimer
    \/ OneSave /\ PauseTimer
    \/ OneSave /\ ResetTimer
    \/ OneSave /\ ToggleMode
    \/ OneSave /\ UserActs /\ TimerFires
    \/ CallResumes

SpecWrites == InitWrites /\ [][NextWrites]_vars

\* C38: once every save has completed and no call is suspended, the six
\* stored session values equal those in memory
C38_StoreEqualsMemory ==
    pending = <<>> => Snapshot(globalState) = Snapshot(World)

\* the last write of the last suspended save has been acknowledged after a
\* phase switch out of WORK, and the store holds the cycle it counted
C38_Witness ==
    /\ lastOp = "resumed" /\ pending = <<>>
    /\ currentCycle = 2 /\ globalState.currentCycle = 2

----------------------------------------------------------------------------
(* A countdown left to run: no command is given, the drive loops fire without
   end while they are scheduled, and the store acknowledges the saves. *)

\* the seconds left on the countdowns that are followed to their end
MaxRunSeconds == 2

\* running sessions with up to MaxRunSeconds left, with the session's drive
\* loop and with a second one
RunInputs ==
    {Drawn(0, 0, sec, ph, 1, s, 0) :
        sec \in 0..MaxRunSeconds, ph \in TimerPhase,
        s \in {<<FALSE, 1, {1}>>, <<FALSE, 2, {1, 2}>>}}

InitRun == \E c \in CountdownConfigs, w \in RunInputs : Is(c, w, "drawn", <<w>>)

\* enough steps for every tick of the countdown and its save, and two more
MayRun == Steps < 2 * (MaxRunSeconds + 2)

NextRun ==
    \/ MayRun /\ TimerFires
    \/ MayRun /\ CallReturns

\* setInterval keeps firing a scheduled drive loop
SpecRun ==
    /\ InitRun /\ [][NextRun]_vars
    /\ WF_vars(MayRun /\ TimerFires)

\* the steps of the recorded run in which tick() counted down or finished
TickSteps ==
    {j \in 2..Len(history) :
        /\ Len(history[j].pending) = Len(history[j - 1].pending) + 1
        /\ history[j].pending[Len(history[j].pending)].then
              \in {TickFalse, TickTrue}}

\* those in which tick() finished the phase
FinishingTicks ==
    {j \in TickSteps :
        history[j].pending[Len(history[j].pending)].then = TickTrue}

\* C39: left alone, a running session with T seconds remaining completes its
\* phase: the tick that returns true comes, it is tick number T + 1 and
\* leaves the session paused, and without autoStartNextPhase no drive loop
\* is left to deliver a tick after it
C39_CountdownCompletes ==
    /\ <>(lastOp = "tick:true")
    /\ [](lastOp = "tick:true" =>
             /\ Cardinality(TickSteps) = Total(history[1]) + 1
             /\ isPaused)
    /\ []((FinishingTicks # {} /\ ~config.autoStartNextPhase) =>
             intervals = {})

----------------------------------------------------------------------------
(* The countdown's range: sessions from the default state under settings that
   give the phases durations of 1 and 2 minutes, the zero and the negative
   ones through the floor of 1. *)

RangeConfigs ==
    [workTime : {0, 2}, breakTime : {-1, 2}, longBreakTime : {1, 2},
     cyclesBeforeLongBreak : {1, 2},
     showNotifications : BOOLEAN, autoStartNextPhase : BOOLEAN,
     pauseOnInactivity : {FALSE}, inactivityThreshold : {5}]

InitRange ==
    \E c \in RangeConfigs :
        /\ config = c
        /\ Is(c, construct(DefaultStore), "constructor", <<>>)

SpecRange == InitRange /\ [][NextCycle]_vars

\* C40: from the default state, under constant settings, the hours are 0,
\* the seconds lie in 0..59 and the remaining time lies between 0 and the
\* configured duration of the current phase, whatever the commands and ticks
C40_RemainingInRange ==
    /\ currentHours = 0
    /\ currentSeconds \in 0..LastSecond
    /\ Total(Now) >= 0
    /\ Total(Now) <= 60 * ConfiguredMinutes(phase)

\* after a completed work phase of 1 minute, set as 0, a break of 2 minutes
\* has counted its first second
C40_Witness ==
    /\ config.workTime = 0 /\ config.breakTime = 2
    /\ dailyStats.completedWorkCycles = 1
    /\ phase = BREAK /\ ~isPaused
    /\ currentMinutes = 1 /\ currentSeconds = LastSecond

====
